---- MODULE Spec2Model ----
(***************************************************************************)
(* fitdata: the Fitbit client (fitbit.py), the data run (main.py) and the  *)
(* authorization flow (auth-main.py) as state machines.                    *)
(*                                                                         *)
(* A creds dict is a record: kind says whether the Python value is a dict  *)
(* or None, and each key holds its string or Absent (no such key).         *)
(* An HTTP exchange is one step: the request is sent and the answer (a     *)
(* status with a body, or a transport failure) is what the server model    *)
(* allows.  Two server models: "any" answers anything; "rotating" is an    *)
(* OAuth2 server with single-use refresh tokens.                           *)
(***************************************************************************)
EXTENDS Integers, Sequences, FiniteSets, TLC

VARIABLES
    mode,       \* which server model answers: "any" | "rotating"
    srv,        \* the server: [issued, live]
    creds,      \* the caller's creds dict (fitbit.py, "creds" parameters)
    call,       \* per caller: the frame of get_spo2 / _api_request
    calls,      \* number of calls started so far
    file,       \* the credentials file FITBIT_CREDS
    run,        \* main.py: the run of main
    sheet,      \* the rows of the worksheet
    auth        \* auth-main.py: the run of main

vars == <<mode, srv, creds, call, calls, file, run, sheet, auth>>

(***************************************************************************)
(* Bounds of the model.                                                    *)
(***************************************************************************)
MaxCalls == 2       \* calls of get_spo2 (or runs of main) in one behaviour
MaxIssue == 2       \* token pairs the server issues after the first

Callers == {1, 2}

(***************************************************************************)
(* creds dicts.                                                            *)
(***************************************************************************)
Absent == "<absent>"

Acc(n) == "a" \o ToString(n)
Ref(n) == "r" \o ToString(n)

MkCreds(k, id, secret, code, at, rt) ==
    [kind |-> k, client_id |-> id, client_secret |-> secret,
     authorization_code |-> code, access_token |-> at, refresh_token |-> rt]

NoneCreds == MkCreds("None", Absent, Absent, Absent, Absent, Absent)
EmptyDict == MkCreds("dict", Absent, Absent, Absent, Absent, Absent)

\* every dict over the five keys the module docstring names, and None
AllCreds ==
    {NoneCreds} \cup
    {MkCreds("dict", id, secret, code, at, rt) :
        id \in {Absent, "id"}, secret \in {Absent, "secret"},
        code \in {Absent, "code"},
        at \in {Absent, "", Acc(0)}, rt \in {Absent, Ref(0)}}

\* faulty variant: the guard written as `creds is None`
NotCredsNoneOnly(c) == c.kind = "None"

\* `not creds`: None and the empty dict are falsy
NotCreds(c) ==
    \/ c.kind = "None"
    \/ /\ c.client_id = Absent /\ c.client_secret = Absent
       /\ c.authorization_code = Absent
       /\ c.access_token = Absent /\ c.refresh_token = Absent

\* faulty variant: the key is read without a default
CredsAccessTokenNoDefault(c) == c.access_token

\* creds.get("access_token", "")
CredsGetAccessToken(c) ==
    IF c.access_token = Absent THEN "" ELSE c.access_token

(***************************************************************************)
(* get_spo2: dates and the request path.                                   *)
(***************************************************************************)
MkDate(y, m, d, hh) == [year |-> y, month |-> m, day |-> d, hour |-> hh]
NoneDate == MkDate(0, 0, 0, 0)          \* end=None
Dates == {MkDate(2024, 1, 1, 0), MkDate(2024, 1, 2, 13), MkDate(2023, 12, 31, 7)}

Pad(width, n) ==
    LET s == ToString(n)
        zeros == [i \in 0..4 |-> CASE i = 0 -> "" [] i = 1 -> "0" [] i = 2 -> "00"
                                   [] i = 3 -> "000" [] OTHER -> "0000"]
    IN  IF Len(s) >= width THEN s ELSE zeros[width - Len(s)] \o s

\* date.strftime("%Y-%m-%d")
StrftimeYmd(dt) ==
    Pad(4, dt.year) \o "-" \o Pad(2, dt.month) \o "-" \o Pad(2, dt.day)

\* faulty variant: the end argument is dropped
EndOrDateIgnoresEnd(date, end) == date

\* end = end or date
EndOrDate(date, end) == IF end # NoneDate THEN end ELSE date

UrlPath(date, end) ==
    "spo2/date/" \o StrftimeYmd(date) \o "/"
        \o StrftimeYmd(EndOrDate(date, end)) \o ".json"

ApiBase == "https://api.fitbit.com/1/user/-/"
TokenUrl == "https://api.fitbit.com/oauth2/token"

(***************************************************************************)
(* HTTP answers.  A body is JSON or not; a JSON body holds a list of SpO2  *)
(* records (resource server) or the keys of a token response.              *)
(***************************************************************************)
MkBody(j, l, at, rt) ==
    [json |-> j, list |-> l, access_token |-> at, refresh_token |-> rt]

NotJson == MkBody(FALSE, <<>>, Absent, Absent)      \* e.g. a gateway's HTML page
ErrorJson == MkBody(TRUE, <<>>, Absent, Absent)     \* {"errors": [...]}
NoBody == MkBody(FALSE, <<>>, Absent, Absent)

Rec1 == [dateTime |-> "2024-01-01", avg |-> 942, min |-> 890, max |-> 981]
Rec2 == [dateTime |-> "2024-01-02", avg |-> 951, min |-> 900, max |-> 990]
DataLists == {<<>>, <<Rec1, Rec2>>, <<Rec2, Rec1>>}

MkResp(t, s, b) == [transport |-> t, status |-> s, body |-> b]
TransportError == MkResp("failed", 0, NoBody)   \* httpx.RequestError: no response
NoResp == MkResp("none", 0, NoBody)

ErrorStatuses == {400, 401, 503}

\* response.raise_for_status(): anything but 2xx raises HTTPStatusError
IsSuccess(r) == r.status \in 200..299

(***************************************************************************)
(* The server.  srv.issued is the index of the latest pair it issued,      *)
(* srv.live the indices of the access tokens it still honours.             *)
(***************************************************************************)
MkAnswer(r, s) == [resp |-> r, srv |-> s]

DataResponses == {MkResp("ok", 200, MkBody(TRUE, l, Absent, Absent)) : l \in DataLists}
ErrorResponses == {MkResp("ok", st, b) : st \in ErrorStatuses, b \in {ErrorJson, NotJson}}
TokenResponse(at, rt) == MkResp("ok", 200, MkBody(TRUE, <<>>, at, rt))

\* what the resource server may answer to a GET carrying `bearer`
GetAnswers(m, s, bearer) ==
    IF m = "any"
    THEN {MkAnswer(r, s) :
            r \in DataResponses \cup ErrorResponses
                    \cup {MkResp("ok", 200, NotJson), TransportError}}
    ELSE LET honoured == \E i \in s.live : bearer = Acc(i)
         IN  {MkAnswer(r, s) :
                r \in (IF honoured THEN DataResponses
                                   ELSE {MkResp("ok", 401, ErrorJson)})
                        \cup {MkResp("ok", 503, NotJson), TransportError}}

\* the rotating server takes the refresh: the presented token dies, a new pair is
\* issued; the old access token lives on until it expires, or dies at once
Rotated(s) ==
    {[issued |-> s.issued + 1, live |-> l] :
        l \in {s.live \cup {s.issued + 1}, {s.issued + 1}}}

\* what the token endpoint may answer to a refresh POST
PostAnswers(m, s, id, secret, rt) ==
    IF m = "any"
    THEN {MkAnswer(r, s) :
            r \in {TokenResponse(Acc(n), Ref(n)) : n \in 1..MaxIssue}
                    \cup {TokenResponse(Acc(n), Absent) : n \in 1..MaxIssue}
                    \cup {TokenResponse(Absent, Ref(n)) : n \in 1..MaxIssue}
                    \cup ErrorResponses
                    \cup {MkResp("ok", 200, NotJson), TransportError}}
    ELSE LET accepted == id = "id" /\ secret = "secret" /\ rt = Ref(s.issued)
         IN  (IF ~accepted
                THEN {MkAnswer(MkResp("ok", 400, ErrorJson), s)}
              ELSE IF s.issued < MaxIssue
                THEN UNION {{MkAnswer(TokenResponse(Acc(s2.issued), Ref(s2.issued)), s2),
                             MkAnswer(TransportError, s2)} : s2 \in Rotated(s)}
              ELSE {})
             \cup {MkAnswer(MkResp("ok", 503, NotJson), s), MkAnswer(TransportError, s)}

(***************************************************************************)
(* fitbit.py: the frame of one call of get_spo2 / _api_request.            *)
(***************************************************************************)
MkOutcome(k, r, v) == [kind |-> k, resp |-> r, value |-> v]
NoOutcome == MkOutcome("none", NoResp, NoBody)

MkRequest(method, u, authorization, rt, r) ==
    [method |-> method, url |-> u, authorization |-> authorization,
     refresh_token |-> rt, resp |-> r]

IdleFrame ==
    [pc |-> "idle", access_token |-> "", url |-> "", date |-> NoneDate,
     end |-> NoneDate, log |-> <<>>, pending |-> NoResp, outcome |-> NoOutcome,
     creds0 |-> NoneCreds, issued0 |-> 0, overlapped |-> FALSE]

\* _do_resource_get / _do_auth_post after the exchange: raise_for_status(), then json()
DoRequestResult(r) ==
    IF r.transport = "failed" THEN MkOutcome("RequestError", NoResp, NoBody)
    ELSE IF ~IsSuccess(r) THEN MkOutcome("HTTPStatusError", r, NoBody)
    ELSE IF ~r.body.json THEN MkOutcome("JSONDecodeError", NoResp, NoBody)
    ELSE MkOutcome("return", NoResp, r.body)

\* except httpx.HTTPStatusError as ex: raise CredentialsError(ex.response.json()) from ex
ToCredentialsError(o) ==
    IF o.kind # "HTTPStatusError" THEN o
    ELSE IF ~o.resp.body.json THEN MkOutcome("JSONDecodeError", NoResp, NoBody)
    ELSE MkOutcome("CredentialsError", NoResp, o.resp.body)

\* faulty variant: every 4xx status starts a refresh
IsClientError(r) == r.status \in 400..499

\* faulty variant: every error status starts a refresh
IsAnyError(r) == r.status >= 400

\* if ex.response.status_code == 401
IsExpiredToken(r) == r.status = 401

Finished(c, o) == [call EXCEPT ![c].pc = "done", ![c].outcome = o]

Logged(f, req) == [f EXCEPT !.log = Append(@, req)]

\* faulty variant: the new refresh token is not stored
RefreshedCredsAccessOnly(cr, data) ==
    IF data.access_token = Absent THEN cr
    ELSE [cr EXCEPT !.access_token = data.access_token]

\* faulty variant: the access token is stored under both keys
RefreshedCredsSameValue(cr, data) ==
    IF data.access_token = Absent THEN cr
    ELSE IF data.refresh_token = Absent
        THEN [cr EXCEPT !.access_token = data.access_token]
    ELSE [cr EXCEPT !.access_token = data.access_token,
                    !.refresh_token = data.access_token]

\* _refresh_access_token, lines 115-116: the two assignments, after the first access
\* of data["access_token"]; a missing key raises KeyError where it is read
RefreshedCreds(cr, data) ==
    IF data.access_token = Absent THEN cr
    ELSE IF data.refresh_token = Absent
        THEN [cr EXCEPT !.access_token = data.access_token]
    ELSE [cr EXCEPT !.access_token = data.access_token,
                    !.refresh_token = data.refresh_token]

\* get_spo2 up to the first request of _api_request: the path, the guard on creds,
\* the access token read from creds
EnterApiRequest(cr, date, end) ==
    LET f == [IdleFrame EXCEPT !.date = date, !.end = end, !.creds0 = cr,
                               !.url = ApiBase \o UrlPath(date, end)]
    IN  IF NotCreds(cr)
        THEN [f EXCEPT !.pc = "done",
                       !.outcome = MkOutcome("CredentialsError", NoResp, NoBody)]
        ELSE [f EXCEPT !.pc = "get", !.access_token = CredsGetAccessToken(cr)]

\* the callers whose call is under way
Active == {c \in Callers : call[c].pc \notin {"idle", "done"}}

\* a caller calls get_spo2(creds, date, end) on the creds it holds; the frame notes
\* the pair the server had issued by then, and whether another call is under way
GetSpo2Among(c, dates, ends) ==
    /\ call[c].pc = "idle"
    /\ run.pc = "off"
    /\ calls < MaxCalls
    /\ \E date \in dates, end \in ends :
        call' = [o \in Callers |->
                    IF o = c
                    THEN [EnterApiRequest(creds, date, end)
                            EXCEPT !.issued0 = srv.issued,
                                   !.overlapped = (Active \ {c} # {}
                                        /\ ~NotCreds(creds))]
                    ELSE IF o \in Active /\ ~NotCreds(creds)
                        THEN [call[o] EXCEPT !.overlapped = TRUE]
                    ELSE call[o]]
    /\ calls' = calls + 1
    /\ UNCHANGED <<mode, srv, creds, file, run, sheet, auth>>

GetSpo2(c) == GetSpo2Among(c, Dates, Dates \cup {NoneDate})

\* return _do_resource_get(client, access_token, url), and the outer except clause
FirstGet(c) ==
    /\ call[c].pc = "get"
    /\ \E a \in GetAnswers(mode, srv, call[c].access_token) :
        LET f == Logged(call[c], MkRequest("GET", call[c].url,
                            "Bearer " \o call[c].access_token, Absent, a.resp))
            o == DoRequestResult(a.resp)
        IN  /\ srv' = a.srv
            /\ call' = [call EXCEPT ![c] =
                    IF o.kind = "HTTPStatusError" /\ IsExpiredToken(o.resp)
                    THEN [f EXCEPT !.pc = "refresh"]
                    ELSE [f EXCEPT !.pc = "done", !.outcome = o]]
    /\ UNCHANGED <<mode, creds, calls, file, run, sheet, auth>>

\* faulty variant: the access token is sent as the refresh token
PostRefreshTokenWrongKey(cr) == cr.access_token

\* post_data["refresh_token"]
PostRefreshToken(cr) == cr.refresh_token

\* _refresh_access_token up to client.post: the three keys are read from creds
\* (KeyError when one is missing) and the POST is sent; the server acts on it
RefreshSend(c) ==
    /\ call[c].pc = "refresh"
    /\ IF Absent \in {creds.refresh_token, creds.client_id, creds.client_secret}
       THEN /\ call' = Finished(c, MkOutcome("KeyError", NoResp, NoBody))
            /\ srv' = srv
       ELSE \E a \in PostAnswers(mode, srv, creds.client_id, creds.client_secret,
                                 PostRefreshToken(creds)) :
            /\ call' = [call EXCEPT ![c] =
                    [Logged(call[c], MkRequest("POST", TokenUrl,
                        "Basic " \o creds.client_id \o ":" \o creds.client_secret,
                        PostRefreshToken(creds), a.resp))
                     EXCEPT !.pc = "post", !.pending = a.resp]]
            /\ srv' = a.srv
    /\ UNCHANGED <<mode, creds, calls, file, run, sheet, auth>>

\* the answer of the POST arrives: _do_auth_post returns or raises, creds is
\* updated, and the inner except clause turns an HTTPStatusError into
\* CredentialsError
RefreshReceive(c) ==
    /\ call[c].pc = "post"
    /\ LET o == DoRequestResult(call[c].pending)
           data == o.value
       IN  IF o.kind # "return"
           THEN /\ call' = Finished(c, ToCredentialsError(o))
                /\ creds' = creds
           ELSE /\ creds' = RefreshedCreds(creds, data)
                /\ call' = IF Absent \in {data.access_token, data.refresh_token}
                           THEN Finished(c, MkOutcome("KeyError", NoResp, NoBody))
                           ELSE [call EXCEPT ![c].pc = "retry",
                                             ![c].access_token = data.access_token]
    /\ UNCHANGED <<mode, srv, calls, file, run, sheet, auth>>

\* return _do_resource_get(client, access_token, url) inside the inner try
Retry(c) ==
    /\ call[c].pc = "retry"
    /\ \E a \in GetAnswers(mode, srv, call[c].access_token) :
        LET f == Logged(call[c], MkRequest("GET", call[c].url,
                            "Bearer " \o call[c].access_token, Absent, a.resp))
        IN  /\ srv' = a.srv
            /\ call' = [call EXCEPT ![c] =
                    [f EXCEPT !.pc = "done",
                              !.outcome = ToCredentialsError(DoRequestResult(a.resp))]]
    /\ UNCHANGED <<mode, creds, calls, file, run, sheet, auth>>

\* the caller has the result (or the exception) and drops the frame
Return(c) ==
    /\ call[c].pc = "done"
    /\ run.pc = "off"
    /\ call' = [call EXCEPT ![c] = IdleFrame]
    /\ UNCHANGED <<mode, srv, creds, calls, file, run, sheet, auth>>

\* server side: an access token expires
ExpireAccessToken ==
    /\ mode = "rotating"
    /\ \E i \in srv.live : srv' = [srv EXCEPT !.live = @ \ {i}]
    /\ UNCHANGED <<mode, creds, call, calls, file, run, sheet, auth>>

(***************************************************************************)
(* The credentials file: missing, or the text json.dump wrote.  The text   *)
(* of an object is the sequence of its members.                            *)
(***************************************************************************)
CredsKeys ==
    <<"client_id", "client_secret", "authorization_code", "access_token",
      "refresh_token">>

MkFile(st, j, ms) == [state |-> st, json |-> j, members |-> ms]
NoFile == MkFile("missing", "", <<>>)
EmptyFile == MkFile("written", "invalid", <<>>)     \* no JSON document in it

\* json.dump(creds, creds_file) / json.dumps(creds)
JsonDump(c) ==
    IF c.kind = "None" THEN MkFile("written", "null", <<>>)
    ELSE LET present == SelectSeq(CredsKeys, LAMBDA k : c[k] # Absent)
         IN  MkFile("written", "object",
                    [i \in 1..Len(present) |->
                        [key |-> present[i], value |-> c[present[i]]]])

\* faulty variant: the first member is taken whatever its key
JsonMemberFirst(ms, k) ==
    IF ms = <<>> THEN Absent ELSE ms[1].value

\* the value of key k in the object, as dict[k] after json.load
JsonMember(ms, k) ==
    IF \E i \in 1..Len(ms) : ms[i].key = k
    THEN ms[CHOOSE i \in 1..Len(ms) : ms[i].key = k].value
    ELSE Absent

\* json.load(creds_file), for a file that holds a JSON document
JsonLoad(f) ==
    IF f.json = "null" THEN NoneCreds
    ELSE MkCreds("dict", JsonMember(f.members, "client_id"),
                 JsonMember(f.members, "client_secret"),
                 JsonMember(f.members, "authorization_code"),
                 JsonMember(f.members, "access_token"),
                 JsonMember(f.members, "refresh_token"))

(***************************************************************************)
(* main.py: one run of main per process.                                   *)
(***************************************************************************)
MkRun(p, code, d) == [pc |-> p, exit |-> code, data |-> d]
RunOff == MkRun("off", -1, <<>>)
RunStart == MkRun("start", -1, <<>>)

StartDate == MkDate(2024, 1, 1, 0)      \* start = datetime(2024, 1, 1)

\* faulty variant: the columns in the order of the API value (avg, min, max)
SheetRowsAvgFirst(spo2_data) ==
    [i \in 1..Len(spo2_data) |->
        <<spo2_data[i].dateTime, spo2_data[i].avg, spo2_data[i].min,
          spo2_data[i].max>>]

\* add_spo2_to_sheet: the rows handed to sheet.append_rows
SheetRows(spo2_data) ==
    [i \in 1..Len(spo2_data) |->
        <<spo2_data[i].dateTime, spo2_data[i].min, spo2_data[i].max,
          spo2_data[i].avg>>]

\* a process starts: the GOOGLE_AUTH check and open_sheet("Fitdata")
MainOpen ==
    /\ run.pc \in {"start", "exit"}
    /\ calls < MaxCalls
    /\ calls' = calls + 1
    /\ call' = [c \in Callers |-> IdleFrame]
    /\ creds' = NoneCreds
    /\ \E o \in {"no GOOGLE_AUTH", "open_sheet raises", "ok"} :
        run' = IF o = "ok" THEN MkRun("opened", -1, <<>>) ELSE MkRun("exit", 1, <<>>)
    /\ UNCHANGED <<mode, srv, file, sheet, auth>>

\* the credentials file is read; get_spo2(creds, start, yesterday) is entered
MainLoad ==
    /\ run.pc = "opened"
    /\ IF file.state = "missing" \/ file.json = "invalid"
       THEN /\ run' = MkRun("exit", 1, <<>>)       \* uncaught OSError / JSONDecodeError
            /\ UNCHANGED <<creds, call>>
       ELSE /\ creds' = JsonLoad(file)
            /\ \E yesterday \in Dates :
                call' = [call EXCEPT ![1] =
                            EnterApiRequest(JsonLoad(file), StartDate, yesterday)]
            /\ run' = MkRun("fetching", -1, <<>>)
    /\ UNCHANGED <<mode, srv, calls, file, sheet, auth>>

\* get_spo2 returned: the credentials file is rewritten
MainSave ==
    /\ run.pc = "fetching"
    /\ call[1].pc = "done"
    /\ call[1].outcome.kind = "return"
    /\ file' = JsonDump(creds)
    /\ run' = MkRun("saved", -1, call[1].outcome.value.list)
    /\ UNCHANGED <<mode, srv, creds, call, calls, sheet, auth>>

\* get_spo2 raised: nothing in main catches it, the process ends with a traceback
MainRaise ==
    /\ run.pc = "fetching"
    /\ call[1].pc = "done"
    /\ call[1].outcome.kind # "return"
    /\ run' = MkRun("exit", 1, <<>>)
    /\ UNCHANGED <<mode, srv, creds, call, calls, file, sheet, auth>>

\* faulty variant: the rows are appended before the file is rewritten
MainAppendUnsaved ==
    /\ run.pc = "fetching"
    /\ call[1].pc = "done"
    /\ call[1].outcome.kind = "return"
    /\ sheet' = sheet \o SheetRows(call[1].outcome.value.list)
    /\ run' = MkRun("exit", 0, call[1].outcome.value.list)
    /\ UNCHANGED <<mode, srv, creds, call, calls, file, auth>>

\* add_spo2_to_sheet(sheet, data): one append_rows call, which may fail
MainAppend ==
    /\ run.pc = "saved"
    /\ \/ /\ sheet' = sheet \o SheetRows(run.data)
          /\ run' = MkRun("exit", 0, run.data)
       \/ /\ sheet' = sheet
          /\ run' = MkRun("exit", 1, run.data)
    /\ UNCHANGED <<mode, srv, creds, call, calls, file, auth>>

(***************************************************************************)
(* auth-main.py: main, sheets_auth and fitbit_auth.  authorize and         *)
(* fetch_token are the helpers of the oauth module: each returns, raises   *)
(* an Exception, or is interrupted by the operator (KeyboardInterrupt).    *)
(***************************************************************************)
MkAuth(p, code, id, secret, tr, f0, steps, w) ==
    [pc |-> p, exit |-> code, client_id |-> id, client_secret |-> secret,
     token_response |-> tr, file0 |-> f0, steps |-> steps, wrote |-> w]
AuthOff == MkAuth("off", -1, Absent, Absent, NoBody, NoFile, <<>>, FALSE)

\* the process ends: exit(1) in an except clause, or main returning
AuthExit(a, code, step) ==
    [a EXCEPT !.pc = "exit", !.exit = code, !.steps = Append(@, step)]

AuthStep(a, p, step) == [a EXCEPT !.pc = p, !.steps = Append(@, step)]

HelperOutcomes == {"ok", "Exception", "KeyboardInterrupt"}

\* token responses fetch_token may return
TokenResponses ==
    {MkBody(TRUE, <<>>, at, rt) :
        at \in {Absent} \cup {Acc(n) : n \in 0..MaxIssue},
        rt \in {Absent} \cup {Ref(n) : n \in 0..MaxIssue}}

\* fitbit_auth, lines 57-62: the creds dict built from the token response
AuthCreds(a) ==
    MkCreds("dict", a.client_id, a.client_secret, Absent,
            a.token_response.access_token, a.token_response.refresh_token)

\* faulty variant: the refresh token is read with .get()
AuthCredsHasAccessToken(a) == a.token_response.access_token # Absent

\* the dict literal raises KeyError when the token response lacks a key
AuthCredsComplete(a) ==
    /\ a.token_response.access_token # Absent
    /\ a.token_response.refresh_token # Absent

\* sheets_auth: the GOOGLE_CREDS check and gspread.oauth
SheetsAuth ==
    /\ auth.pc = "start"
    /\ \E o \in {"no GOOGLE_CREDS"} \cup HelperOutcomes :
        auth' = IF o = "ok" THEN AuthStep(auth, "input", "sheets_auth ok")
                ELSE AuthExit(auth, 1, "sheets_auth: " \o o)
    /\ UNCHANGED <<mode, srv, creds, call, calls, file, run, sheet>>

\* fitbit_auth: the two input() prompts, outside the try block
FitbitInput ==
    /\ auth.pc = "input"
    /\ \/ \E id \in {"id", "id2"}, secret \in {"secret", "secret2"} :
            auth' = [AuthStep(auth, "authorize", "input ok")
                        EXCEPT !.client_id = id, !.client_secret = secret]
       \/ \E o \in {"EOFError", "KeyboardInterrupt"} :
            auth' = AuthExit(auth, 1, "input: " \o o)
    /\ UNCHANGED <<mode, srv, creds, call, calls, file, run, sheet>>

\* response, state = authorize(...)
Authorize ==
    /\ auth.pc = "authorize"
    /\ \E o \in HelperOutcomes :
        auth' = IF o = "ok" THEN AuthStep(auth, "exchange", "authorize ok")
                ELSE AuthExit(auth, 1, "authorize: " \o o)
    /\ UNCHANGED <<mode, srv, creds, call, calls, file, run, sheet>>

\* token_response = fetch_token(...)
FetchToken ==
    /\ auth.pc = "exchange"
    /\ \/ \E tr \in TokenResponses :
            auth' = [AuthStep(auth, "persist", "fetch_token ok")
                        EXCEPT !.token_response = tr]
       \/ \E o \in HelperOutcomes \ {"ok"} :
            auth' = AuthExit(auth, 1, "fetch_token: " \o o)
    /\ UNCHANGED <<mode, srv, creds, call, calls, file, run, sheet>>

\* the creds dict is built and written to FITBIT_CREDS; main returns
Persist ==
    /\ auth.pc = "persist"
    /\ \/ /\ AuthCredsComplete(auth)
          /\ file' = JsonDump(AuthCreds(auth))
          /\ auth' = [AuthExit(auth, 0, "written") EXCEPT !.wrote = TRUE]
       \/ /\ ~AuthCredsComplete(auth)
          /\ file' = file
          /\ auth' = AuthExit(auth, 1, "KeyError")
       \/ /\ file' = file           \* FITBIT_CREDS.open("w") raises OSError
          /\ auth' = AuthExit(auth, 1, "OSError")
    /\ UNCHANGED <<mode, srv, creds, call, calls, run, sheet>>

(***************************************************************************)
(* A single caller using the client.                                       *)
(***************************************************************************)
IssuedCreds(n) == MkCreds("dict", "id", "secret", Absent, Acc(n), Ref(n))

Init ==
    /\ mode \in {"any", "rotating"}
    /\ srv = [issued |-> 0, live |-> {0}]
    /\ creds \in (IF mode = "any" THEN AllCreds ELSE {IssuedCreds(0)})
    /\ call = [c \in Callers |-> IdleFrame]
    /\ calls = 0
    /\ file = NoFile
    /\ run = RunOff
    /\ sheet = <<>>
    /\ auth = AuthOff

Next ==
    \/ GetSpo2(1)
    \/ FirstGet(1)
    \/ RefreshSend(1)
    \/ RefreshReceive(1)
    \/ Retry(1)
    \/ Return(1)
    \/ ExpireAccessToken

Spec == Init /\ [][Next]_vars

(***************************************************************************)
(* Runs of main.py against the credentials file.                           *)
(***************************************************************************)
MainInit ==
    /\ mode \in {"any", "rotating"}
    /\ srv = [issued |-> 0, live |-> {0}]
    /\ creds = NoneCreds
    /\ call = [c \in Callers |-> IdleFrame]
    /\ calls = 0
    /\ file \in (IF mode = "any"
                 THEN {NoFile, EmptyFile} \cup {JsonDump(c) : c \in AllCreds}
                 ELSE {JsonDump(IssuedCreds(0))})
    /\ run = RunStart
    /\ sheet = <<>>
    /\ auth = AuthOff

MainNext ==
    \/ MainOpen
    \/ MainLoad
    \/ FirstGet(1)
    \/ RefreshSend(1)
    \/ RefreshReceive(1)
    \/ Retry(1)
    \/ MainSave
    \/ MainRaise
    \/ MainAppend
    \/ ExpireAccessToken

MainSpec == MainInit /\ [][MainNext]_vars

(***************************************************************************)
(* One run of auth-main.py.                                                *)
(***************************************************************************)
AuthInit ==
    /\ mode = "any"
    /\ srv = [issued |-> 0, live |-> {0}]
    /\ creds = NoneCreds
    /\ call = [c \in Callers |-> IdleFrame]
    /\ calls = 0
    /\ file \in {NoFile, EmptyFile} \cup {JsonDump(c) : c \in AllCreds}
    /\ run = RunOff
    /\ sheet = <<>>
    /\ auth = [AuthOff EXCEPT !.pc = "start", !.file0 = file]

AuthNext ==
    \/ SheetsAuth
    \/ FitbitInput
    \/ Authorize
    \/ FetchToken
    \/ Persist

AuthSpec == AuthInit /\ [][AuthNext]_vars

\* the client code runs to completion: every request ends within the 10 s
\* timeout of httpx.Client(timeout=10), and nothing else blocks
FairSpec ==
    /\ Spec
    /\ WF_vars(FirstGet(1))
    /\ WF_vars(RefreshSend(1))
    /\ WF_vars(RefreshReceive(1))
    /\ WF_vars(Retry(1))

(***************************************************************************)
(* Vocabulary of the properties: the call of caller 1 and what it sent.    *)
(***************************************************************************)
TheCall == call[1]
CallDone == TheCall.pc = "done"
Sent(method) ==
    Cardinality({i \in 1..Len(TheCall.log) : TheCall.log[i].method = method})
Answer(i) == TheCall.log[i].resp
GotStatus(i) == Len(TheCall.log) >= i /\ Answer(i).transport = "ok"
Got2xx(i) == GotStatus(i) /\ Answer(i).status >= 200 /\ Answer(i).status <= 299
GotHttpError(i) == GotStatus(i) /\ ~(Answer(i).status >= 200 /\ Answer(i).status <= 299)
First401 == GotStatus(1) /\ Answer(1).status = 401
\* the token endpoint accepted the refresh: 2xx with both tokens in a JSON object
RefreshAccepted ==
    /\ Got2xx(2)
    /\ Answer(2).body.json
    /\ Answer(2).body.access_token # Absent
    /\ Answer(2).body.refresh_token # Absent
HoldsRefreshedPair ==
    /\ creds.access_token = Answer(2).body.access_token
    /\ creds.refresh_token = Answer(2).body.refresh_token
\* creds can form a refresh request, and the server accepts it when asked
RefreshableCreds ==
    /\ TheCall.creds0.kind = "dict"
    /\ TheCall.creds0.client_id # Absent
    /\ TheCall.creds0.client_secret # Absent
    /\ TheCall.creds0.refresh_token # Absent
    /\ Len(TheCall.log) >= 2 => RefreshAccepted

(***************************************************************************)
(* C1 (as stated): with creds whose refresh token the server accepts, a    *)
(* call whose first GET returns 401 sends exactly one refresh POST and     *)
(* exactly one retry GET; if the retry returns 2xx the call returns the    *)
(* retry's body and creds holds the pair of the refresh response.          *)
(***************************************************************************)
C1_AsStated ==
    (CallDone /\ RefreshableCreds /\ First401) =>
        /\ Sent("POST") = 1
        /\ Sent("GET") = 2
        /\ Got2xx(3) =>
            /\ TheCall.outcome.kind = "return"
            /\ TheCall.outcome.value = Answer(3).body
            /\ HoldsRefreshedPair

(***************************************************************************)
(* C1 (amended): the same, where the retry returns 2xx with a body that    *)
(* is JSON; a 2xx retry whose body is not JSON raises the decode error.    *)
(***************************************************************************)
C1_RefreshOnceRetryOnce ==
    (CallDone /\ RefreshableCreds /\ First401) =>
        /\ Sent("POST") = 1
        /\ Sent("GET") = 2
        /\ TheCall.log[2].method = "POST"
        /\ (Got2xx(3) /\ Answer(3).body.json) =>
            /\ TheCall.outcome.kind = "return"
            /\ TheCall.outcome.value = Answer(3).body
            /\ HoldsRefreshedPair
        /\ (Got2xx(3) /\ ~Answer(3).body.json) =>
            /\ TheCall.outcome.kind = "JSONDecodeError"
            /\ HoldsRefreshedPair

C1_Witness ==
    /\ CallDone /\ RefreshableCreds /\ First401
    /\ Got2xx(3) /\ Answer(3).body.json /\ Answer(3).body.list # <<>>
    /\ TheCall.outcome.kind = "return"
    /\ creds.refresh_token # TheCall.creds0.refresh_token

(***************************************************************************)
(* C2: a call with empty creds (None or the empty dict) fails with         *)
(* CredentialsError, sends no request, and leaves creds as it was.         *)
(***************************************************************************)
C2_EmptyCredsNoNetwork ==
    (CallDone /\ TheCall.creds0 \in {NoneCreds, EmptyDict}) =>
        /\ TheCall.outcome.kind = "CredentialsError"
        /\ TheCall.log = <<>>
        /\ creds = TheCall.creds0

C2_Witness ==
    /\ CallDone
    /\ TheCall.creds0 = EmptyDict
    /\ TheCall.outcome.kind = "CredentialsError"

(***************************************************************************)
(* C3: a first GET answered with a non-2xx status other than 401 ends the  *)
(* call with that HTTPStatusError: no refresh POST, no retry GET, no       *)
(* CredentialsError, creds unchanged.                                      *)
(***************************************************************************)
C3_OtherStatusPropagated ==
    (CallDone /\ GotHttpError(1) /\ Answer(1).status # 401) =>
        /\ TheCall.outcome.kind = "HTTPStatusError"
        /\ TheCall.outcome.resp = Answer(1)
        /\ Len(TheCall.log) = 1
        /\ creds = TheCall.creds0

C3_Witness ==
    /\ CallDone /\ GotHttpError(1) /\ Answer(1).status = 503
    /\ TheCall.outcome.kind = "HTTPStatusError"

(***************************************************************************)
(* C4 (as stated): first GET 401 and a refresh POST answered with an HTTP  *)
(* error status end the call with CredentialsError, without a retry GET    *)
(* and with creds unchanged.                                               *)
(***************************************************************************)
C4_RefreshErrorIsCredentialsError ==
    (CallDone /\ First401 /\ GotHttpError(2)) =>
        /\ TheCall.outcome.kind = "CredentialsError"
        /\ Sent("GET") = 1
        /\ creds = TheCall.creds0

(***************************************************************************)
(* C5 (as stated): first GET 401, refresh accepted, retry GET answered     *)
(* with an HTTP error status: the call ends with CredentialsError, after   *)
(* one POST and two GETs, and creds holds the whole refreshed pair.        *)
(***************************************************************************)
C5_RetryErrorIsCredentialsError ==
    (CallDone /\ First401 /\ RefreshAccepted /\ GotHttpError(3)) =>
        /\ TheCall.outcome.kind = "CredentialsError"
        /\ Sent("POST") = 1
        /\ Sent("GET") = 2
        /\ Len(TheCall.log) = 3
        /\ HoldsRefreshedPair

(***************************************************************************)
(* C6: whatever the server answers, a call ends, and what it sends is a    *)
(* prefix of GET, refresh POST, GET: the POST only after a GET answered    *)
(* 401, the second GET only after an accepted refresh.                     *)
(***************************************************************************)
RequestsArePrefix ==
    LET log == TheCall.log
    IN  /\ Len(log) <= 3
        /\ \A i \in 1..Len(log) : log[i].method = <<"GET", "POST", "GET">>[i]
        /\ Len(log) >= 2 => First401
        /\ Len(log) >= 3 => RefreshAccepted
        /\ Sent("GET") <= 2
        /\ Sent("POST") <= 1

C6_BoundedRequestsAndTermination ==
    /\ []RequestsArePrefix
    /\ (TheCall.pc \in {"get", "refresh", "post", "retry"}) ~> CallDone

C6_Witness ==
    /\ CallDone
    /\ Len(TheCall.log) = 3
    /\ TheCall.log[3].method = "GET"
    /\ GotHttpError(3)

(***************************************************************************)
(* C7: against the rotating server, whenever a call of the single caller   *)
(* returns successfully, creds holds the latest pair the server issued     *)
(* (also after calls in which the answer to a refresh was lost).           *)
(***************************************************************************)
C7_HoldsLatestPair ==
    (mode = "rotating" /\ CallDone /\ TheCall.outcome.kind = "return") =>
        /\ creds.access_token = "a" \o ToString(srv.issued)
        /\ creds.refresh_token = "r" \o ToString(srv.issued)

\* the second refresh of the behaviour, followed by a successful retry
C7_Witness ==
    /\ mode = "rotating" /\ CallDone /\ TheCall.outcome.kind = "return"
    /\ srv.issued = 2
    /\ Len(TheCall.log) = 3

(***************************************************************************)
(* C8 (as stated): when a run of main.py ends in which a refresh POST      *)
(* succeeded, the credentials file holds the refreshed pair, also when     *)
(* get_spo2 failed after the refresh.                                      *)
(***************************************************************************)
C8_FileHoldsRefreshedPair ==
    (run.pc = "exit" /\ First401 /\ RefreshAccepted) =>
        /\ file.state = "written"
        /\ JsonMember(file.members, "access_token") = Answer(2).body.access_token
        /\ JsonMember(file.members, "refresh_token") = Answer(2).body.refresh_token

(***************************************************************************)
(* C9: auth-main.py writes the credentials file only after authorize and   *)
(* fetch_token both succeeded, and then with all four fields; when the     *)
(* operator interrupts or a step fails the process exits with code 1 and   *)
(* the file is as it was.                                                  *)
(***************************************************************************)
AuthFailures ==
    {"sheets_auth: no GOOGLE_CREDS", "sheets_auth: Exception",
     "sheets_auth: KeyboardInterrupt", "input: KeyboardInterrupt", "input: EOFError",
     "authorize: Exception", "authorize: KeyboardInterrupt",
     "fetch_token: Exception", "fetch_token: KeyboardInterrupt"}

StepTaken(step) == \E i \in 1..Len(auth.steps) : auth.steps[i] = step

Ymd(dt) ==
    CASE dt.year = 2024 /\ dt.month = 1 /\ dt.day = 1 -> "2024-01-01"
      [] dt.year = 2024 /\ dt.month = 1 /\ dt.day = 2 -> "2024-01-02"
      [] dt.year = 2023 /\ dt.month = 12 /\ dt.day = 31 -> "2023-12-31"

C10_PathOfDates ==
    (TheCall.pc # "idle") =>
        LET d == TheCall.date
            e == IF TheCall.end = NoneDate THEN TheCall.date ELSE TheCall.end
            u == "https://api.fitbit.com/1/user/-/spo2/date/"
                    \o Ymd(d) \o "/" \o Ymd(e) \o ".json"
        IN  /\ TheCall.url = u
            /\ \A i \in 1..Len(TheCall.log) :
                    TheCall.log[i].method = "GET" => TheCall.log[i].url = u

\* a request for a range that ends before it starts went out
C10_Witness ==
    /\ Len(TheCall.log) >= 1
    /\ TheCall.date.year = 2024 /\ TheCall.end.year = 2023
    /\ TheCall.log[1].url =
        "https://api.fitbit.com/1/user/-/spo2/date/2024-01-02/2023-12-31.json"

(***************************************************************************)
(* Two callers sharing one creds dict, against the rotating server; their  *)
(* calls may overlap or follow one another.                                *)
(***************************************************************************)
ConcInit ==
    /\ mode = "rotating"
    /\ srv = [issued |-> 0, live |-> {0}]
    /\ creds = IssuedCreds(0)
    /\ call = [c \in Callers |-> IdleFrame]
    /\ calls = 0
    /\ file = NoFile
    /\ run = RunOff
    /\ sheet = <<>>
    /\ auth = AuthOff

ConcNext ==
    \/ \E c \in Callers :
        \/ GetSpo2Among(c, {StartDate}, {NoneDate, StartDate})
        \/ FirstGet(c)
        \/ RefreshSend(c)
        \/ RefreshReceive(c)
        \/ Retry(c)
        \/ Return(c)
    \/ ExpireAccessToken

ConcSpec == ConcInit /\ [][ConcNext]_vars

(***************************************************************************)
(* C11: two callers sharing creds, unserialized, against single-use        *)
(* refresh tokens: both can read the same refresh token after a 401, and   *)
(* the one whose POST comes second is refused and ends with                *)
(* CredentialsError, although the refresh token was the valid one when     *)
(* its call began.  A call that overlapped no other never ends so.         *)
(***************************************************************************)
\* caller c began with the server's current refresh token, sent it after a 401,
\* was refused, and ended with CredentialsError
RefusedWithValidCreds(c) ==
    LET f == call[c]
    IN  /\ f.pc = "done"
        /\ f.outcome.kind = "CredentialsError"
        /\ f.creds0.refresh_token = "r" \o ToString(f.issued0)
        /\ f.creds0.client_id = "id" /\ f.creds0.client_secret = "secret"
        /\ Len(f.log) = 2
        /\ f.log[1].resp.status = 401
        /\ f.log[2].method = "POST"
        /\ f.log[2].resp.transport = "ok"
        /\ f.log[2].resp.status = 400

C11_StaleRefreshOnlyWhenOverlapped ==
    \A c \in Callers :
        RefusedWithValidCreds(c) =>
            /\ call[c].overlapped
            /\ srv.issued > call[c].issued0
            /\ call[c].log[2].refresh_token # "r" \o ToString(srv.issued)
            /\ \E k \in 0..srv.issued : call[c].log[2].refresh_token = "r" \o ToString(k)

\* both callers sent the same refresh token; caller 1 was served, caller 2 refused
C11_Witness ==
    /\ RefusedWithValidCreds(2)
    /\ Len(call[1].log) >= 2
    /\ call[1].log[2].method = "POST"
    /\ call[1].log[2].refresh_token = call[2].log[2].refresh_token
    /\ call[1].log[2].resp.status = 200
    /\ call[1].creds0 = call[2].creds0

(***************************************************************************)
(* The credentials file between the two programs: one run of auth-main.py, *)
(* then one run of main.py.                                                *)
(***************************************************************************)
StoreInit ==
    /\ mode = "any"
    /\ srv = [issued |-> 0, live |-> {0}]
    /\ creds = NoneCreds
    /\ call = [c \in Callers |-> IdleFrame]
    /\ calls = 0
    /\ file \in {NoFile, JsonDump(IssuedCreds(0)),
                 JsonDump(MkCreds("dict", "id", "secret", "code", Absent, Ref(0)))}
    /\ run = RunStart
    /\ sheet = <<>>
    /\ auth = [AuthOff EXCEPT !.pc = "start", !.file0 = file]

\* main.py is started, once, after auth-main.py has ended
MainOpenAfterAuth ==
    /\ auth.pc = "exit"
    /\ run.pc = "start"
    /\ MainOpen

StoreNext ==
    \/ SheetsAuth
    \/ FitbitInput
    \/ Authorize
    \/ FetchToken
    \/ Persist
    \/ MainOpenAfterAuth
    \/ MainLoad
    \/ FirstGet(1)
    \/ RefreshSend(1)
    \/ RefreshReceive(1)
    \/ Retry(1)
    \/ MainSave
    \/ MainRaise
    \/ MainAppend

StoreSpec == StoreInit /\ [][StoreNext]_vars

(***************************************************************************)
(* C12: a run of main that sent no refresh and whose get_spo2 returned     *)
(* rewrites the credentials file with the four field values it loaded (a   *)
(* field the file lacked stays absent); and when main loads the file the   *)
(* authorization flow wrote, creds holds the four values that flow put in. *)
(***************************************************************************)
FourFields == {"client_id", "client_secret", "access_token", "refresh_token"}

\* the values the text of file f gives to key k
FileValues(f, k) ==
    {f.members[i].value : i \in {j \in 1..Len(f.members) : f.members[j].key = k}}

\* the value, if any, dict c holds under key k
DictValues(c, k) == IF c[k] = Absent THEN {} ELSE {c[k]}

SavedWithoutRefresh ==
    /\ run.pc = "fetching"
    /\ run'.pc = "saved"
    /\ \A i \in 1..Len(call[1].log) : call[1].log[i].method # "POST"

LoadedWhatAuthWrote ==
    /\ run.pc = "opened"
    /\ run'.pc = "fetching"
    /\ auth.wrote
    /\ file = JsonDump(AuthCreds(auth))

C12_RoundTrip ==
    [][ /\ SavedWithoutRefresh =>
            /\ file'.state = "written" /\ file'.json = "object"
            /\ \A k \in FourFields :
                /\ FileValues(file', k) = FileValues(file, k)
                /\ FileValues(file', k) = DictValues(call[1].creds0, k)
        /\ LoadedWhatAuthWrote =>
            /\ creds'.kind = "dict"
            /\ creds'.client_id = auth.client_id
            /\ creds'.client_secret = auth.client_secret
            /\ creds'.access_token = auth.token_response.access_token
            /\ creds'.refresh_token = auth.token_response.refresh_token
            /\ \A k \in FourFields : creds'[k] # Absent
      ]_vars

\* main loaded the file the authorization flow wrote, fetched without a refresh,
\* and rewrote the file
C12_Witness ==
    /\ run.pc = "saved"
    /\ auth.wrote
    /\ auth.client_id = "id2"
    /\ Len(call[1].log) = 1
    /\ call[1].creds0 = AuthCreds(auth)
    /\ file = JsonDump(AuthCreds(auth))

(***************************************************************************)
(* C13 (as stated): the first GET carries creds.access_token as it was     *)
(* when the call began ("" when the key is absent); the retry GET carries  *)
(* the access token of the refresh response, which is creds.access_token   *)
(* after the refresh; the retry never carries the token that was rejected. *)
(***************************************************************************)
FirstBearer ==
    "Bearer " \o (IF TheCall.creds0.access_token = Absent
                  THEN "" ELSE TheCall.creds0.access_token)

BearersAsSent ==
    /\ Len(TheCall.log) >= 1 =>
        /\ TheCall.log[1].method = "GET"
        /\ TheCall.log[1].authorization = FirstBearer
    /\ Len(TheCall.log) >= 3 =>
        /\ TheCall.log[3].method = "GET"
        /\ TheCall.log[3].authorization = "Bearer " \o Answer(2).body.access_token
        /\ TheCall.log[3].authorization = "Bearer " \o creds.access_token

C13_AsStated ==
    /\ BearersAsSent
    /\ Len(TheCall.log) >= 3 =>
        TheCall.log[3].authorization # TheCall.log[1].authorization

(***************************************************************************)
(* C13 (amended): the same, except that the retry carries the rejected     *)
(* token again exactly when the refresh response returns that very token;  *)
(* against the rotating server, which issues a new access token with every *)
(* refresh, it never does.                                                 *)
(***************************************************************************)
C13_BearerTokens ==
    /\ BearersAsSent
    /\ Len(TheCall.log) >= 3 =>
        /\ (TheCall.log[3].authorization = TheCall.log[1].authorization)
                <=> (Answer(2).body.access_token = TheCall.creds0.access_token)
        /\ mode = "rotating" =>
                TheCall.log[3].authorization # TheCall.log[1].authorization

\* creds without an access token: the empty bearer is rejected, the retry carries
\* the token of the refresh response
C13_Witness ==
    /\ CallDone
    /\ TheCall.creds0.access_token = Absent
    /\ Len(TheCall.log) = 3
    /\ TheCall.log[1].authorization = "Bearer "
    /\ TheCall.log[3].authorization = "Bearer a1"
    /\ creds.access_token = "a1"

(***************************************************************************)
(* C14 (as stated): no call changes creds.client_id or                     *)
(* creds.client_secret; the two tokens are as they were when the call      *)
(* began until a refresh POST succeeds, and from then on both hold the     *)
(* values of the refresh response: never one without the other.            *)
(***************************************************************************)
C14_TokensChangeTogether ==
    (TheCall.pc # "idle") =>
        /\ creds.kind = TheCall.creds0.kind
        /\ creds.client_id = TheCall.creds0.client_id
        /\ creds.client_secret = TheCall.creds0.client_secret
        /\ creds.authorization_code = TheCall.creds0.authorization_code
        /\ \/ /\ creds.access_token = TheCall.creds0.access_token
              /\ creds.refresh_token = TheCall.creds0.refresh_token
           \/ /\ Got2xx(2)
              /\ Answer(2).body.json
              /\ TheCall.pc # "post"
              /\ creds.access_token = Answer(2).body.access_token
              /\ creds.refresh_token = Answer(2).body.refresh_token

(***************************************************************************)
(* C15 (as stated): a call with non-empty creds that hold client_id and    *)
(* client_secret (the two tokens possibly absent) ends by returning the    *)
(* body, by raising CredentialsError, or by propagating the non-401 HTTP   *)
(* error of the first GET; after a 401 on the first GET it ends with data  *)
(* or with CredentialsError.  Stated here for calls all of whose requests  *)
(* were answered, with JSON bodies and complete token responses.           *)
(***************************************************************************)
AnsweredInJson ==
    \A i \in 1..Len(TheCall.log) :
        /\ Answer(i).transport = "ok"
        /\ Answer(i).body.json
        /\ (TheCall.log[i].method = "POST" /\ Got2xx(i)) =>
            /\ Answer(i).body.access_token # Absent
            /\ Answer(i).body.refresh_token # Absent

StatedPrecondition ==
    /\ TheCall.creds0.kind = "dict"
    /\ TheCall.creds0.client_id # Absent
    /\ TheCall.creds0.client_secret # Absent

C15_ThreeOutcomes ==
    (CallDone /\ StatedPrecondition /\ AnsweredInJson) =>
        /\ \/ TheCall.outcome.kind = "return"
           \/ TheCall.outcome.kind = "CredentialsError"
           \/ /\ TheCall.outcome.kind = "HTTPStatusError"
              /\ Len(TheCall.log) = 1
              /\ TheCall.outcome.resp = Answer(1)
              /\ Answer(1).status # 401
        /\ First401 => TheCall.outcome.kind \in {"return", "CredentialsError"}

(***************************************************************************)
(* C16: in a run of main the credentials file is read before any request   *)
(* is sent; it is rewritten after get_spo2 returned and before rows are    *)
(* appended; rows are appended only when get_spo2 returned.  So a failed   *)
(* append leaves the refreshed tokens in the file, and a failed fetch      *)
(* appends nothing.                                                        *)
(***************************************************************************)
Fetched == call[1].pc = "done" /\ call[1].outcome.kind = "return"

\* the file holds the two tokens creds holds
FileHoldsTokens ==
    /\ file.state = "written"
    /\ FileValues(file, "access_token") = DictValues(creds, "access_token")
    /\ FileValues(file, "refresh_token") = DictValues(creds, "refresh_token")

RequestsAfterLoad ==
    call[1].log # <<>> =>
        /\ run.pc \in {"fetching", "saved", "exit"}
        /\ call[1].creds0.kind = "dict"

RequestStep ==
    Len(call'[1].log) > Len(call[1].log) =>
        /\ run.pc = "fetching"
        /\ file.state = "written"
        /\ file' = file
        /\ \A k \in FourFields : DictValues(call[1].creds0, k) = FileValues(file, k)

SaveStep ==
    file' # file =>
        /\ run.pc = "fetching" /\ run'.pc = "saved"
        /\ Fetched
        /\ sheet' = sheet

AppendStep ==
    ((run.pc = "saved" /\ run' # run) \/ sheet' # sheet) =>
        /\ run.pc = "saved" /\ run'.pc = "exit"
        /\ Fetched
        /\ FileHoldsTokens
        /\ (First401 /\ RefreshAccepted) =>
            /\ FileValues(file, "access_token") = {Answer(2).body.access_token}
            /\ FileValues(file, "refresh_token") = {Answer(2).body.refresh_token}
        /\ file' = file
        /\ sheet' \in {sheet, sheet \o SheetRows(call[1].outcome.value.list)}

FailedFetchStep ==
    (run.pc = "fetching" /\ call[1].pc = "done" /\ ~Fetched /\ run' # run) =>
        /\ run'.pc = "exit" /\ run'.exit = 1
        /\ sheet' = sheet
        /\ file' = file

C16_MainOrdering ==
    /\ []RequestsAfterLoad
    /\ [][RequestStep /\ SaveStep /\ AppendStep /\ FailedFetchStep]_vars

\* the append failed after a refresh: no row was added, the file holds the new pair
C16_Witness ==
    /\ run.pc = "exit" /\ run.exit = 1
    /\ Fetched
    /\ First401 /\ RefreshAccepted
    /\ run.data # <<>>
    /\ sheet = <<>>
    /\ FileValues(file, "refresh_token") = {Answer(2).body.refresh_token}
    /\ FileValues(file, "refresh_token") # DictValues(call[1].creds0, "refresh_token")

(***************************************************************************)
(* C17: add_spo2_to_sheet appends, in one call, one row per record, in the *)
(* order of the list it was given, each row being (dateTime, min, max,     *)
(* avg) of its record; for the empty list it appends no row.               *)
(***************************************************************************)
RowOf(entry) == <<entry.dateTime, entry.min, entry.max, entry.avg>>

AppendedRows ==
    (run.pc = "saved" /\ run'.pc = "exit" /\ run'.exit = 0) =>
        LET spo2_data == call[1].outcome.value.list
            n == Len(sheet)
        IN  /\ Len(sheet') = n + Len(spo2_data)
            /\ \A i \in 1..n : sheet'[i] = sheet[i]
            /\ \A i \in 1..Len(spo2_data) : sheet'[n + i] = RowOf(spo2_data[i])
            /\ spo2_data = <<>> => sheet' = sheet

C17_RowsInInputOrder == [][AppendedRows]_vars

\* records given latest first were appended latest first, min before max before avg
C17_Witness ==
    /\ run.pc = "exit" /\ run.exit = 0
    /\ call[1].outcome.value.list = <<Rec2, Rec1>>
    /\ sheet = << <<"2024-01-02", 900, 990, 951>>, <<"2024-01-01", 890, 981, 942>> >>

====
